---- MODULE Spec2Model ----
(***************************************************************************)
(* A model of the promise package: the completable promise of              *)
(* completable.go, the two immediate promises (Completed, Rejected) and    *)
(* client goroutines that call the public methods concurrently.            *)
(*                                                                         *)
(* Every client call runs on its own goroutine, which owns a call stack of *)
(* frames.  A frame is one method invocation; its pc names the next        *)
(* synchronisation point of that method                                    *)
(* (an atomic load of the state, a mutex acquisition, a condition wait, a  *)
(* broadcast, the call of a dependency).  Code between two such points is  *)
(* local to the goroutine and runs in the step that reaches the point.     *)
(***************************************************************************)
EXTENDS Integers, Sequences, FiniteSets, TLC

(* completable.go:10-14 *)
PENDING == 0
FULFILLED == 1
REJECTED == 2

(* The bound of the model: the number of calls the client makes.  Every    *)
(* client call runs on a goroutine of its own, so this is also the number  *)
(* of goroutines.                                                          *)
MaxCalls == 3

Threads == 1..MaxCalls

(***************************************************************************)
(* heap:  the CompletablePromise objects, by address                       *)
(* stack: the call stack of the goroutine of each client call              *)
(* calls: the client calls made so far and what they returned              *)
(***************************************************************************)
VARIABLES heap, stack, calls

vars == <<heap, stack, calls>>

(***************************************************************************)
(* Values (interface{}): nil or an int.  Causes (error): 0 is nil.         *)
(***************************************************************************)
Nil == [k |-> "nil", v |-> <<>>]
IntVal(n) == [k |-> "int", v |-> <<n>>]

(* val, _ := value.(int): the zero value when the assertion fails. *)
AsInt(x) == IF x.k = "int" THEN x.v[1] ELSE 0

(* []interface{}{...}: a slice of values (of ints, in this model). *)
ListVal(s) == [k |-> "list", v |-> s]

(* promise.go:66-68: value => []interface{}{value} *)
Wrapped(x) == ListVal(<<AsInt(x)>>)

(* An append at the wrong end. *)
Appended_front(values, right) == ListVal(<<AsInt(right)>> \o values.v)

(* promise.go:85-87: right => append(values, right) *)
Appended(values, right) == ListVal(values.v \o <<AsInt(right)>>)

NilError == 0

(* What the client completes and rejects a promise with                    *)
(* (promise_test.go:87 and 92, promise_test.go:277).                       *)
Values == {IntVal(2), IntVal(3)}
Causes == {1}

(***************************************************************************)
(* The user functions of the tests: squaring and cubing transforms         *)
(* (promise_test.go:100-110) and the producer x => Completed(x + 3)        *)
(* (promise_test.go:112-116).                                              *)
(***************************************************************************)
Transforms == {"sq", "cube"}
Producers == {"plus3", "inner"}

(* The heap addresses of the two promises the client makes with Promise(): *)
(* the one it composes on, and the one its "inner" producer returns.       *)
OuterPromise == 1
InnerPromise == 2

(* The value each promise is completed with: a.Complete(2), b.Complete(3)  *)
(* (promise_test.go:87-92).                                                *)
Given(p) == IF p = InnerPromise THEN IntVal(3) ELSE IntVal(2)

Apply(fn, x) ==
    CASE fn = "sq" -> IntVal(AsInt(x) * AsInt(x))
      [] fn = "cube" -> IntVal(AsInt(x) * AsInt(x) * AsInt(x))
      [] fn = "plus3" -> IntVal(AsInt(x) + 3)
      [] OTHER -> Nil

(***************************************************************************)
(* Thenable references: a pointer to a CompletablePromise on the heap, or  *)
(* an immediate CompletedPromise / RejectedPromise (immutable, held by     *)
(* value).                                                                 *)
(***************************************************************************)
NoRef == [kind |-> "none", id |-> 0, value |-> Nil, cause |-> NilError]
Ref(p) == [kind |-> "completable", id |-> p, value |-> Nil, cause |-> NilError]
Completed(value) == [kind |-> "completed", id |-> 0, value |-> value, cause |-> NilError]
Rejected(cause) == [kind |-> "rejected", id |-> 0, value |-> Nil, cause |-> cause]

(* The Thenable a producer returns: x => Completed(x + 3)                  *)
(* (promise_test.go:112-116), or x => inner, a promise of the client's     *)
(* that may still be pending (README.rst:55-56).                           *)
Produce(fn, x) == IF fn = "inner" THEN Ref(InnerPromise) ELSE Completed(Apply(fn, x))

(***************************************************************************)
(* Function values.  compute / handle of a promise, and the arguments of   *)
(* Then, Catch and Combine.  id is the client call that supplied a user    *)
(* function (its invocations are logged in calls[id].runs); target is the  *)
(* placeholder a closure of Combine captured.                              *)
(***************************************************************************)
(* What a closure captured besides target: a Thenable and a value. *)
NoEnv == [ref |-> NoRef, val |-> Nil]

NoFunc == [kind |-> "nil", id |-> 0, fn |-> "", target |-> 0, env |-> NoEnv]
Identity == [kind |-> "ident", id |-> 0, fn |-> "", target |-> 0, env |-> NoEnv]
UserFunc(k, fn) == [kind |-> "user", id |-> k, fn |-> fn, target |-> 0, env |-> NoEnv]
UserHandler(k) == [kind |-> "userH", id |-> k, fn |-> "", target |-> 0, env |-> NoEnv]
(* a handler that panics (spec.md 4.1: "its own thrown faults") *)
FaultyHandler(k) ==
    [kind |-> "userH", id |-> k, fn |-> "fault", target |-> 0, env |-> NoEnv]
UserProducer(k, fn) ==
    [kind |-> "producer", id |-> k, fn |-> fn, target |-> 0, env |-> NoEnv]
(* completable.go:275-284: the closure given to depend by Combine *)
CombineOuter(k, fn, pl) ==
    [kind |-> "combOuter", id |-> k, fn |-> fn, target |-> pl, env |-> NoEnv]
(* completable.go:276-280: composed => placeholder.Complete(composed); nil *)
CombineInner(pl) ==
    [kind |-> "combInner", id |-> 0, fn |-> "", target |-> pl, env |-> NoEnv]
(* completable.go:280-282 and 285-287: err => placeholder.Reject(err) *)
CombineReject(pl) ==
    [kind |-> "combReject", id |-> 0, fn |-> "", target |-> pl, env |-> NoEnv]
(* promise_test.go:68-72: aValue => bValue + aValue *)
SumFunc(bValue) ==
    [kind |-> "sum", id |-> 0, fn |-> "", target |-> 0,
     env |-> [ref |-> NoRef, val |-> bValue]]
(* promise.go:66-68: the transform of All for its first input *)
WrapFunc == [kind |-> "wrap", id |-> 0, fn |-> "", target |-> 0, env |-> NoEnv]
(* promise.go:85-87: the transform of All that appends to values *)
AppendFunc(values) ==
    [kind |-> "append", id |-> 0, fn |-> "", target |-> 0,
     env |-> [ref |-> NoRef, val |-> values]]
(* promise.go:78-88: the producer of All for the input each, given by call *)
(* k: left => each.Then(right => append(left, right))                      *)
AllProducer(k, each) ==
    [kind |-> "producer", id |-> k, fn |-> "allNext", target |-> 0,
     env |-> [ref |-> each, val |-> Nil]]

(***************************************************************************)
(* completable(compute, handle): a new CompletablePromise.  mutex is the   *)
(* goroutine holding the lock (0: free), waiters the goroutines parked in  *)
(* cond.Wait.  via and by are history fields (how the promise was made,    *)
(* and the client call whose goroutine settled it).                        *)
(***************************************************************************)
completable(compute, handle, via) ==
    [state |-> PENDING, cause |-> NilError, value |-> Nil, mutex |-> 0,
     waiters |-> {}, compute |-> compute, handle |-> handle,
     dependencies |-> <<>>, via |-> via, by |-> 0]

Promise == completable(Identity, NoFunc, "root")

(* atomic.LoadUint32(&promise.state) *)
State(h, p) == h[p].state

Lock(h, p, t) == [h EXCEPT ![p].mutex = t]
Unlock(h, p) == [h EXCEPT ![p].mutex = 0]

(* A Broadcast that wakes nobody. *)
Broadcast_lost(h, p) == h

(* cond.Broadcast(): every parked goroutine is made runnable. *)
Broadcast(h, p) == [h EXCEPT ![p].waiters = {}]

(* promise.dependencies = append(promise.dependencies, q) *)
AppendDependency(h, p, q) == [h EXCEPT ![p].dependencies = Append(@, q)]

(***************************************************************************)
(* Frames.                                                                 *)
(***************************************************************************)
Frame(op, pc, p, cb, val, cause) ==
    [op |-> op, pc |-> pc, p |-> p, cb |-> cb, val |-> val, cause |-> cause,
     rt |-> NoRef, i |-> 0, deps |-> <<>>, locked |-> FALSE]

Running(t) == stack[t] # <<>>
Top(t) == stack[t][Len(stack[t])]
At(t, op, pc) == Running(t) /\ Top(t).op = op /\ Top(t).pc = pc
Below(t) == SubSeq(stack[t], 1, Len(stack[t]) - 1)

(* The frames a call of a function value pushes: the closures of Combine   *)
(* call back into the library; user functions run in the calling step.     *)
ComputeFrames(cb, x) ==
    CASE cb.kind = "combInner" ->
            <<Frame("Complete", "c_lock", cb.target, NoFunc, x, NilError)>>
      [] cb.kind = "combOuter" ->
            <<Frame("combOuter", "o_create", 0, cb, x, NilError)>>
      [] cb.kind = "user" /\ cb.fn = "completeB" ->
            <<Frame("Complete", "c_lock", InnerPromise, NoFunc, Given(InnerPromise),
                    NilError)>>
      [] OTHER -> <<>>

(* The value a compute function returns. *)
ComputeValue(cb, x) ==
    CASE cb.kind = "ident" -> x
      [] cb.kind = "user" -> Apply(cb.fn, x)
      [] cb.kind = "wrap" -> Wrapped(x)
      [] cb.kind = "append" -> Appended(cb.env.val, x)
      [] cb.kind = "sum" -> IntVal(AsInt(cb.env.val) + AsInt(x))
      [] OTHER -> Nil

(* The frames a call of the producer cb pushes: the producer of All calls  *)
(* each.Then(...) (promise.go:85), a library call when each is a           *)
(* CompletablePromise; the producer of TestReentrantComplete calls         *)
(* a.Then(...) (promise_test.go:68).                                       *)
ProducerFrames(cb, x) ==
    CASE cb.fn = "allNext" /\ cb.env.ref.kind = "completable" ->
            <<Frame("Then", "t_enter", cb.env.ref.id, AppendFunc(x), Nil, NilError)>>
      [] cb.fn = "thenA" ->
            <<Frame("Then", "t_enter", OuterPromise, SumFunc(x), Nil, NilError)>>
      [] OTHER -> <<>>

(* The Thenable the producer cb returns when it calls no CompletablePromise: *)
(* CompletedPromise.Then (part_000:39-41) and RejectedPromise.Then          *)
(* (promise_test.go:416-418) for the producer of All.                       *)
Created(cb, x) ==
    CASE cb.fn = "allNext" /\ cb.env.ref.kind = "completed" ->
            Completed(Appended(x, cb.env.ref.value))
      [] cb.fn = "allNext" -> cb.env.ref
      [] OTHER -> Produce(cb.fn, x)

(* A handler of Combine that rejects the placeholder twice. *)
HandleFrames_twice(cb, c) ==
    IF cb.kind = "combReject"
    THEN <<Frame("Reject", "r_lock", cb.target, NoFunc, Nil, c),
           Frame("Reject", "r_lock", cb.target, NoFunc, Nil, c)>>
    ELSE <<>>

(* The frames a call of the handler cb pushes: the handlers of Combine     *)
(* call placeholder.Reject(err) (completable.go:280-282, 285-287).         *)
HandleFrames(cb, c) ==
    IF cb.kind = "combReject"
    THEN <<Frame("Reject", "r_lock", cb.target, NoFunc, Nil, c)>>
    ELSE <<>>

(* Log the invocation of a user function in the client call that gave it. *)
Logged(cs, cb, x, c) ==
    IF cb.kind \in {"user", "userH", "producer"}
    THEN [cs EXCEPT ![cb.id].runs = Append(@, [arg |-> x, cause |-> c])]
    ELSE cs

(***************************************************************************)
(* Returning and panicking.  In the operators below t is the goroutine, f  *)
(* its top frame, below the frames under it, h and cs the heap and the     *)
(* call log the step leaves.                                               *)
(***************************************************************************)

(* Frame f returns r to its caller (NoRef: nothing the caller keeps),      *)
(* running its deferred Unlock.                                            *)
Return(t, f, below, h, cs, r) ==
    /\ heap' = IF f.locked THEN Unlock(h, f.p) ELSE h
    /\ IF below = <<>>
       THEN /\ stack' = [stack EXCEPT ![t] = <<>>]
            /\ calls' = [cs EXCEPT ![t].status = "returned", ![t].rt = r]
       ELSE /\ stack' = [stack EXCEPT ![t] =
                    [below EXCEPT ![Len(below)].rt = IF r = NoRef THEN @ ELSE r]]
            /\ calls' = cs

(* The top frame goes on as f and calls the frames fs (if any). *)
Continue(t, below, h, cs, f, fs) ==
    /\ heap' = h
    /\ stack' = [stack EXCEPT ![t] = below \o <<f>> \o fs]
    /\ calls' = cs

(* The deferred Unlock calls of every frame of goroutine t run. *)
Unwound(h, t) ==
    [p \in DOMAIN h |->
        IF \E i \in 1..Len(stack[t]) : stack[t][i].locked /\ stack[t][i].p = p
        THEN [h[p] EXCEPT !.mutex = 0]
        ELSE h[p]]

(* panic(...): the goroutine unwinds to the client, which recovers; the    *)
(* client call ends with the fault.                                        *)
Panic(t, h) ==
    /\ heap' = h
    /\ stack' = [stack EXCEPT ![t] = <<>>]
    /\ calls' = [calls EXCEPT ![t].status = "faulted"]

(* A panic raised by a user function whose invocation the step logs in cs. *)
Fault(t, h, cs) ==
    /\ heap' = h
    /\ stack' = [stack EXCEPT ![t] = <<>>]
    /\ calls' = [cs EXCEPT ![t].status = "faulted"]

(* The handler cb panics when it is invoked. *)
Faults(cb) == cb.kind = "userH" /\ cb.fn = "fault"

(* completable.go:146-158 panicStateComplete, called by complete with the  *)
(* mutex held and its Unlock deferred.                                     *)
panicStateComplete(t, h) == Panic(t, Unwound(h, t))

(***************************************************************************)
(* CompletablePromise.Complete (completable.go:160-205).                   *)
(***************************************************************************)

(* completable.go:179-183 *)
Fulfil(h, p, composed, k) ==
    [h EXCEPT ![p].value = IF composed # Nil THEN composed ELSE @,
              ![p].state = FULFILLED,
              ![p].by = k]

(* A complete that runs compute and passes the incoming value on. *)
complete_compute_raw(t) ==
    /\ At(t, "Complete", "c_lock")
    /\ LET f == Top(t)
           cb == heap[f.p].compute
       IN  /\ heap[f.p].mutex = 0
           /\ Continue(t, Below(t), Lock(heap, f.p, t),
                  Logged(calls, cb, f.val, NilError),
                  [f EXCEPT !.pc = "c_check", !.locked = TRUE],
                  ComputeFrames(cb, f.val))

(* completable.go:164-173: Lock, defer Unlock, composed = compute(value) *)
complete_compute(t) ==
    /\ At(t, "Complete", "c_lock")
    /\ LET f == Top(t)
           cb == heap[f.p].compute
       IN  /\ heap[f.p].mutex = 0
           /\ Continue(t, Below(t), Lock(heap, f.p, t),
                  Logged(calls, cb, f.val, NilError),
                  [f EXCEPT !.pc = "c_check", !.locked = TRUE,
                            !.val = IF cb.kind = "nil" THEN @ ELSE ComputeValue(cb, @)],
                  ComputeFrames(cb, f.val))

(* A complete without the state check. *)
complete_store_unchecked(t) ==
    /\ At(t, "Complete", "c_check")
    /\ LET f == Top(t)
       IN  Continue(t, Below(t), Unlock(Fulfil(heap, f.p, f.val, t), f.p), calls,
               [f EXCEPT !.pc = "c_bcast", !.locked = FALSE], <<>>)

(* A complete that keeps the mutex. *)
complete_store_held(t) ==
    /\ At(t, "Complete", "c_check")
    /\ LET f == Top(t)
       IN  IF State(heap, f.p) # PENDING
           THEN panicStateComplete(t, heap)
           ELSE Continue(t, Below(t), Fulfil(heap, f.p, f.val, t), calls,
                    [f EXCEPT !.pc = "c_bcast", !.locked = FALSE], <<>>)

(* completable.go:175-185: the state check, the store, the deferred Unlock *)
complete_store(t) ==
    /\ At(t, "Complete", "c_check")
    /\ LET f == Top(t)
       IN  IF State(heap, f.p) # PENDING
           THEN panicStateComplete(t, heap)
           ELSE Continue(t, Below(t), Unlock(Fulfil(heap, f.p, f.val, t), f.p), calls,
                    [f EXCEPT !.pc = "c_bcast", !.locked = FALSE], <<>>)

(* completable.go:200-202: cond.Broadcast(), range promise.dependencies *)
Complete_broadcast(t) ==
    /\ At(t, "Complete", "c_bcast")
    /\ LET f == Top(t)
       IN  Continue(t, Below(t), Broadcast(heap, f.p), calls,
               [f EXCEPT !.pc = "c_deps", !.deps = heap[f.p].dependencies, !.i = 1],
               <<>>)

(* A Complete that leaves its dependencies alone. *)
Complete_dependencies_skipped(t) ==
    /\ At(t, "Complete", "c_deps")
    /\ Return(t, Top(t), Below(t), heap, calls, NoRef)

(* A Complete that walks its dependencies from the last to the first. *)
Complete_dependencies_reversed(t) ==
    /\ At(t, "Complete", "c_deps")
    /\ LET f == Top(t)
       IN  IF f.i > Len(f.deps)
           THEN Return(t, f, Below(t), heap, calls, NoRef)
           ELSE Continue(t, Below(t), heap, calls, [f EXCEPT !.i = @ + 1],
                    <<Frame("Complete", "c_lock", f.deps[Len(f.deps) + 1 - f.i], NoFunc,
                            f.val, NilError)>>)

(* completable.go:202-205: dependency.Complete(composed), in order *)
Complete_dependencies(t) ==
    /\ At(t, "Complete", "c_deps")
    /\ LET f == Top(t)
       IN  IF f.i > Len(f.deps)
           THEN Return(t, f, Below(t), heap, calls, NoRef)
           ELSE Continue(t, Below(t), heap, calls, [f EXCEPT !.i = @ + 1],
                    <<Frame("Complete", "c_lock", f.deps[f.i], NoFunc, f.val, NilError)>>)

(***************************************************************************)
(* CompletablePromise.Reject (completable.go:210-244).                     *)
(***************************************************************************)

(* completable.go:221-223 *)
RejectStore(h, p, c, k) ==
    [h EXCEPT ![p].cause = c, ![p].state = REJECTED, ![p].by = k]

(* A Reject without the state check. *)
Reject_transition_unchecked(t) ==
    /\ At(t, "Reject", "r_lock")
    /\ LET f == Top(t)
       IN  IF f.cause = NilError
           THEN Panic(t, Unwound(heap, t))
           ELSE /\ heap[f.p].mutex = 0
                /\ Continue(t, Below(t), RejectStore(heap, f.p, f.cause, t), calls,
                       [f EXCEPT !.pc = IF heap[f.p].handle.kind = "nil"
                                        THEN "r_bcast" ELSE "r_handle"],
                       <<>>)

(* A Reject without the check of the cause. *)
Reject_transition_nil(t) ==
    /\ At(t, "Reject", "r_lock")
    /\ LET f == Top(t)
       IN  /\ heap[f.p].mutex = 0
           /\ IF State(heap, f.p) # PENDING
              THEN Panic(t, Lock(Unwound(heap, t), f.p, t))
              ELSE Continue(t, Below(t), RejectStore(heap, f.p, f.cause, t), calls,
                       [f EXCEPT !.pc = IF heap[f.p].handle.kind = "nil"
                                        THEN "r_bcast" ELSE "r_handle"],
                       <<>>)

(* completable.go:211-225: the nil check, Lock, the state check (a panic   *)
(* here leaves the mutex locked: Unlock is not deferred), the store,       *)
(* Unlock.                                                                 *)
Reject_transition(t) ==
    /\ At(t, "Reject", "r_lock")
    /\ LET f == Top(t)
       IN  IF f.cause = NilError
           THEN Panic(t, Unwound(heap, t))
           ELSE /\ heap[f.p].mutex = 0
                /\ IF State(heap, f.p) # PENDING
                   THEN Panic(t, Lock(Unwound(heap, t), f.p, t))
                   ELSE Continue(t, Below(t), RejectStore(heap, f.p, f.cause, t), calls,
                            [f EXCEPT !.pc = IF heap[f.p].handle.kind = "nil"
                                             THEN "r_bcast" ELSE "r_handle"],
                            <<>>)

(* A Reject that goes on to the dependencies without calling the handler. *)
Reject_handle_skipped(t) ==
    /\ At(t, "Reject", "r_handle")
    /\ Continue(t, Below(t), heap, calls, [Top(t) EXCEPT !.pc = "r_bcast"], <<>>)

(* completable.go:233-235: promise.handle(cause) *)
Reject_handle(t) ==
    /\ At(t, "Reject", "r_handle")
    /\ LET f == Top(t)
           cb == heap[f.p].handle
       IN  IF Faults(cb)
           THEN Fault(t, Unwound(heap, t), Logged(calls, cb, Nil, f.cause))
           ELSE Continue(t, Below(t), heap, Logged(calls, cb, Nil, f.cause),
                    [f EXCEPT !.pc = "r_bcast"], HandleFrames(cb, f.cause))

(* A Reject that stops at a promise with a handler. *)
Reject_broadcast_handled(t) ==
    /\ At(t, "Reject", "r_bcast")
    /\ LET f == Top(t)
       IN  Continue(t, Below(t), Broadcast(heap, f.p), calls,
               [f EXCEPT !.pc = "r_deps", !.i = 1,
                         !.deps = IF heap[f.p].handle.kind = "nil"
                                  THEN heap[f.p].dependencies ELSE <<>>],
               <<>>)

(* completable.go:239-241: cond.Broadcast(), range promise.dependencies *)
Reject_broadcast(t) ==
    /\ At(t, "Reject", "r_bcast")
    /\ LET f == Top(t)
       IN  Continue(t, Below(t), Broadcast(heap, f.p), calls,
               [f EXCEPT !.pc = "r_deps", !.deps = heap[f.p].dependencies, !.i = 1],
               <<>>)

(* A Reject that leaves the dependents alone. *)
Reject_dependencies_skipped(t) ==
    /\ At(t, "Reject", "r_deps")
    /\ Return(t, Top(t), Below(t), heap, calls, NoRef)

(* completable.go:241-243: dependency.Reject(cause), in order *)
Reject_dependencies(t) ==
    /\ At(t, "Reject", "r_deps")
    /\ LET f == Top(t)
       IN  IF f.i > Len(f.deps)
           THEN Return(t, f, Below(t), heap, calls, NoRef)
           ELSE Continue(t, Below(t), heap, calls, [f EXCEPT !.i = @ + 1],
                    <<Frame("Reject", "r_lock", f.deps[f.i], NoFunc, Nil, f.cause)>>)

(***************************************************************************)
(* CompletablePromise.Then / then / depend (completable.go:77-117).        *)
(***************************************************************************)

(* completable.go:77-83: a new dependency of p, appended; its address is   *)
(* Len(h) + 1.                                                             *)
depend(h, p, compute, handle, via) ==
    AppendDependency(Append(h, completable(compute, handle, via)), p, Len(h) + 1)

(* completable.go:94 and 113: Completed(compute(promise.value)); with the  *)
(* mutex held (deferred Unlock) when reached through line 109.             *)
ThenFulfilled(t, f, below, cs, locked) ==
    LET v == heap[f.p].value
        fs == ComputeFrames(f.cb, v)
        r == Completed(ComputeValue(f.cb, v))
        cs1 == Logged(cs, f.cb, v, NilError)
    IN  IF fs = <<>>
        THEN Return(t, f, below, heap, cs1, r)
        ELSE Continue(t, below, IF locked THEN Lock(heap, f.p, t) ELSE heap, cs1,
                 [f EXCEPT !.pc = "t_ret", !.rt = r, !.locked = locked], fs)

(* A Then that takes every settled promise for a fulfilled one. *)
Then_eager(t, f, below, cs) ==
    IF State(heap, f.p) = PENDING
    THEN Continue(t, below, heap, cs, [f EXCEPT !.pc = "t_lock"], <<>>)
    ELSE ThenFulfilled(t, f, below, cs, FALSE)

(* completable.go:103-116: the switch on State() without the lock *)
Then(t, f, below, cs) ==
    CASE State(heap, f.p) = PENDING ->
            Continue(t, below, heap, cs, [f EXCEPT !.pc = "t_lock"], <<>>)
      [] State(heap, f.p) = REJECTED ->
            Return(t, f, below, heap, cs, Rejected(heap[f.p].cause))
      [] OTHER -> ThenFulfilled(t, f, below, cs, FALSE)

(* Then called by the library (completable.go:276) *)
Then_enter(t) ==
    /\ At(t, "Then", "t_enter")
    /\ Then(t, Top(t), Below(t), calls)

(* A then that registers whatever the state is. *)
then_unchecked(t) ==
    /\ At(t, "Then", "t_lock")
    /\ LET f == Top(t)
       IN  /\ heap[f.p].mutex = 0
           /\ Return(t, f, Below(t), depend(heap, f.p, f.cb, NoFunc, "then"),
                  calls, Ref(Len(heap) + 1))

(* completable.go:105-109 and 87-95: Lock, then(): the switch on State()   *)
(* under the lock, depend when still pending.                              *)
then(t) ==
    /\ At(t, "Then", "t_lock")
    /\ LET f == Top(t)
       IN  /\ heap[f.p].mutex = 0
           /\ CASE State(heap, f.p) = PENDING ->
                    Return(t, f, Below(t), depend(heap, f.p, f.cb, NoFunc, "then"),
                        calls, Ref(Len(heap) + 1))
                [] State(heap, f.p) = REJECTED ->
                    Return(t, f, Below(t), heap, calls, Rejected(heap[f.p].cause))
                [] OTHER -> ThenFulfilled(t, f, Below(t), calls, TRUE)

(* the return of Then after its compute called back into the library *)
Then_return(t) ==
    /\ At(t, "Then", "t_ret")
    /\ Return(t, Top(t), Below(t), heap, calls, Top(t).rt)

(***************************************************************************)
(* CompletablePromise.Catch (completable.go:121-144).                      *)
(***************************************************************************)

(* A Catch that calls the handler whenever the promise is settled. *)
CatchSettled_always(t, f, below, cs, locked) ==
    IF State(heap, f.p) = REJECTED
    THEN Return(t, f, below, heap, Logged(cs, f.cb, Nil, heap[f.p].cause),
             Rejected(heap[f.p].cause))
    ELSE Return(t, f, below, heap, Logged(cs, f.cb, Nil, heap[f.p].cause), Ref(f.p))

(* completable.go:137-143: handle(cause) and Rejected(cause) when          *)
(* rejected, the promise itself when fulfilled.                            *)
CatchSettled(t, f, below, cs, locked) ==
    LET c == heap[f.p].cause
        fs == HandleFrames(f.cb, c)
    IN  IF State(heap, f.p) = REJECTED
        THEN CASE Faults(f.cb) ->
                      Fault(t, Unwound(heap, t), Logged(cs, f.cb, Nil, c))
               [] fs = <<>> ->
                      Return(t, f, below, heap, Logged(cs, f.cb, Nil, c), Rejected(c))
               [] OTHER ->
                      Continue(t, below, IF locked THEN Lock(heap, f.p, t) ELSE heap, cs,
                          [f EXCEPT !.pc = "k_ret", !.rt = Rejected(c),
                                    !.locked = locked],
                          fs)
        ELSE Return(t, f, below, heap, cs, Ref(f.p))

(* completable.go:122: the first check of State() *)
Catch(t, f, below, cs) ==
    IF State(heap, f.p) = PENDING
    THEN Continue(t, below, heap, cs, [f EXCEPT !.pc = "k_lock"], <<>>)
    ELSE CatchSettled(t, f, below, cs, FALSE)

(* Catch called by the library (completable.go:280) *)
Catch_enter(t) ==
    /\ At(t, "Catch", "k_enter")
    /\ Catch(t, Top(t), Below(t), calls)

(* A Catch without the second check. *)
Catch_locked_unchecked(t) ==
    /\ At(t, "Catch", "k_lock")
    /\ LET f == Top(t)
       IN  /\ heap[f.p].mutex = 0
           /\ Return(t, f, Below(t), depend(heap, f.p, NoFunc, f.cb, "catch"),
                  calls, Ref(Len(heap) + 1))

(* completable.go:123-135: Lock, the second check, the registration *)
Catch_locked(t) ==
    /\ At(t, "Catch", "k_lock")
    /\ LET f == Top(t)
       IN  /\ heap[f.p].mutex = 0
           /\ IF State(heap, f.p) = PENDING
              THEN Return(t, f, Below(t), depend(heap, f.p, NoFunc, f.cb, "catch"),
                       calls, Ref(Len(heap) + 1))
              ELSE CatchSettled(t, f, Below(t), calls, TRUE)

(* the return of Catch after its handler called back into the library *)
Catch_return(t) ==
    /\ At(t, "Catch", "k_ret")
    /\ Return(t, Top(t), Below(t), heap, calls, Top(t).rt)

(***************************************************************************)
(* CompletablePromise.Combine (completable.go:251-298).                    *)
(***************************************************************************)

(* completable.go:293-297 *)
(* (reached from line 257 the mutex is held until Combine returns) *)
CombineSettled(t, f, cs) ==
    LET v == heap[f.p].value
        fs == ProducerFrames(f.cb, v)
        held == f.pc = "m_lock"
    IN  IF heap[f.p].state = REJECTED
        THEN Return(t, f, Below(t), heap, cs, Rejected(heap[f.p].cause))
        ELSE IF fs = <<>>
             THEN Return(t, f, Below(t), heap, Logged(cs, f.cb, v, NilError),
                      Created(f.cb, v))
             ELSE Continue(t, Below(t), IF held THEN Lock(heap, f.p, t) ELSE heap,
                      Logged(cs, f.cb, v, NilError),
                      [f EXCEPT !.pc = "m_ret", !.locked = held], fs)

(* completable.go:264-289: placeholder := Promise(); the dependency made   *)
(* by depend (Len(h) + 2) and the one made by its Catch (Len(h) + 3): the  *)
(* new dependency is pending and known to this goroutine alone, so Catch   *)
(* registers.                                                              *)
CombinePending(h, p, cb) ==
    LET pl == Len(h) + 1
        h1 == Append(h, completable(Identity, NoFunc, "placeholder"))
        h2 == depend(h1, p, [CombineOuter(cb.id, cb.fn, pl) EXCEPT !.env = cb.env],
                     NoFunc, "combine")
    IN  depend(h2, pl + 1, NoFunc, CombineReject(pl), "catch")

(* completable.go:252: the first check of the state *)
Combine(t, f, cs) ==
    IF State(heap, f.p) = PENDING
    THEN Continue(t, Below(t), heap, cs, [f EXCEPT !.pc = "m_lock"], <<>>)
    ELSE CombineSettled(t, f, cs)

(* Combine called by All (promise.go:78) *)
Combine_enter(t) ==
    /\ At(t, "Combine", "m_enter")
    /\ Combine(t, Top(t), calls)

(* completable.go:253-290: Lock, the second check *)
Combine_locked(t) ==
    /\ At(t, "Combine", "m_lock")
    /\ LET f == Top(t)
       IN  /\ heap[f.p].mutex = 0
           /\ IF State(heap, f.p) = PENDING
              THEN Return(t, f, Below(t), CombinePending(heap, f.p, f.cb), calls,
                       Ref(Len(heap) + 1))
              ELSE CombineSettled(t, f, calls)

(* the return of Combine after its producer called back into the library *)
Combine_return(t) ==
    /\ At(t, "Combine", "m_ret")
    /\ Return(t, Top(t), Below(t), heap, calls, Top(t).rt)

(***************************************************************************)
(* The closure Combine hands to depend (completable.go:275-284):           *)
(* create(awaited).Then(inner).Catch(reject); return nil.                  *)
(***************************************************************************)

(* A closure that does not wait for the promise the producer made: it      *)
(* completes the placeholder with whatever that promise holds.             *)
Outer_create_early(t) ==
    /\ At(t, "combOuter", "o_create")
    /\ LET f == Top(t)
           pl == f.cb.target
           created == Produce(f.cb.fn, f.val)
           cs == Logged(calls, UserProducer(f.cb.id, f.cb.fn), f.val, NilError)
           held == IF created.kind = "completable"
                   THEN heap[created.id].value ELSE created.value
       IN  Continue(t, Below(t), heap, cs,
               [f EXCEPT !.pc = "o_catch", !.rt = Completed(Nil)],
               ComputeFrames(CombineInner(pl), held))

(* create(awaited).Then(...): CompletablePromise.Then, CompletedPromise.   *)
(* Then (part_000:39-41) or RejectedPromise.Then (promise_test.go:416-418) *)
OuterThen(t, f, created, cs) ==
    LET pl == f.cb.target
        g == [f EXCEPT !.pc = "o_catch"]
    IN  CASE created.kind = "completable" ->
                 Continue(t, Below(t), heap, cs, g,
                     <<Frame("Then", "t_enter", created.id, CombineInner(pl),
                             Nil, NilError)>>)
          [] created.kind = "completed" ->
                 Continue(t, Below(t), heap, cs,
                     [g EXCEPT !.rt = Completed(ComputeValue(CombineInner(pl),
                                                             created.value))],
                     ComputeFrames(CombineInner(pl), created.value))
          [] OTHER -> Continue(t, Below(t), heap, cs, [g EXCEPT !.rt = created], <<>>)

(* create(awaited), and .Then(...) on what it returns unless create calls  *)
(* into the library itself.                                                *)
Outer_create(t) ==
    /\ At(t, "combOuter", "o_create")
    /\ LET f == Top(t)
           producer == [UserProducer(f.cb.id, f.cb.fn) EXCEPT !.env = f.cb.env]
           cs == Logged(calls, producer, f.val, NilError)
           fs == ProducerFrames(producer, f.val)
       IN  IF fs = <<>>
           THEN OuterThen(t, f, Created(producer, f.val), cs)
           ELSE Continue(t, Below(t), heap, cs, [f EXCEPT !.pc = "o_made"], fs)

(* create(awaited) has returned from the library: .Then(...) on it *)
Outer_made(t) ==
    /\ At(t, "combOuter", "o_made")
    /\ OuterThen(t, Top(t), Top(t).rt, calls)

(* A closure without the Catch on what Then returned. *)
Outer_catch_skipped(t) ==
    /\ At(t, "combOuter", "o_catch")
    /\ Continue(t, Below(t), heap, calls, [Top(t) EXCEPT !.pc = "o_ret"], <<>>)

(* .Catch(...): CompletablePromise.Catch, CompletedPromise.Catch           *)
(* (part_000:48-50) or RejectedPromise.Catch (promise_test.go:424-428)     *)
Outer_catch(t) ==
    /\ At(t, "combOuter", "o_catch")
    /\ LET f == Top(t)
           pl == f.cb.target
           g == [f EXCEPT !.pc = "o_ret"]
       IN  CASE f.rt.kind = "completable" ->
                    Continue(t, Below(t), heap, calls, g,
                        <<Frame("Catch", "k_enter", f.rt.id, CombineReject(pl),
                                Nil, NilError)>>)
             [] f.rt.kind = "rejected" ->
                    Continue(t, Below(t), heap, calls, g,
                        HandleFrames(CombineReject(pl), f.rt.cause))
             [] OTHER -> Continue(t, Below(t), heap, calls, g, <<>>)

(* return nil *)
Outer_return(t) ==
    /\ At(t, "combOuter", "o_ret")
    /\ Return(t, Top(t), Below(t), heap, calls, NoRef)

(***************************************************************************)
(* CompletablePromise.Get (completable.go:61-75).                          *)
(***************************************************************************)

(* A Get that takes what it returns out of the promise. *)
Get_taking(t, f, cs) ==
    /\ heap' = [heap EXCEPT ![f.p].value = Nil, ![f.p].cause = NilError]
    /\ stack' = [stack EXCEPT ![t] = <<>>]
    /\ calls' = [cs EXCEPT ![t].status = "returned",
                           ![t].rv = heap[f.p].value,
                           ![t].rc = heap[f.p].cause]

(* completable.go:74: return promise.value, promise.cause *)
Get_return(t, f, cs) ==
    /\ heap' = heap
    /\ stack' = [stack EXCEPT ![t] = <<>>]
    /\ calls' = [cs EXCEPT ![t].status = "returned",
                           ![t].rv = heap[f.p].value,
                           ![t].rc = heap[f.p].cause]

(* completable.go:68: cond.Wait() unlocks the mutex and parks the          *)
(* goroutine in one atomic step.                                           *)
Wait(t, f) ==
    /\ heap' = [heap EXCEPT ![f.p].waiters = @ \cup {t}]
    /\ stack' = [stack EXCEPT ![t] = <<[f EXCEPT !.pc = "g_wait"]>>]
    /\ calls' = [calls EXCEPT ![t].blocked = TRUE]

(* A Get that does not wait. *)
Get_nowait(t, f, cs) == Get_return(t, f, cs)

(* completable.go:62: the first check of State() *)
Get(t, f, cs) ==
    IF State(heap, f.p) = PENDING
    THEN Continue(t, <<>>, heap, cs, [f EXCEPT !.pc = "g_lock"], <<>>)
    ELSE Get_return(t, f, cs)

(* completable.go:63-71: Lock, the loop test, Wait or Unlock *)
Get_locked(t) ==
    /\ At(t, "Get", "g_lock")
    /\ heap[Top(t).p].mutex = 0
    /\ IF State(heap, Top(t).p) = PENDING
       THEN Wait(t, Top(t))
       ELSE Get_return(t, Top(t), calls)

(* completable.go:65-71: woken by a broadcast, Wait locks the mutex again  *)
(* and the loop tests the state again.                                     *)
Get_woken(t) ==
    /\ At(t, "Get", "g_wait")
    /\ t \notin heap[Top(t).p].waiters
    /\ heap[Top(t).p].mutex = 0
    /\ IF State(heap, Top(t).p) = PENDING
       THEN Wait(t, Top(t))
       ELSE Get_return(t, Top(t), calls)

(***************************************************************************)
(* The client: it makes the two promises and then calls the public         *)
(* methods, each call on a goroutine of its own, as the tests do.  The     *)
(* receiver of Then, Catch, Combine and Get is the outer promise or any    *)
(* Thenable an earlier call returned; Complete and Reject are called on    *)
(* the promises the client made (the others are handed out as Thenable).   *)
(* The first step of Then, Catch, Combine and Get (a load of the state)    *)
(* is taken when the call is made.                                         *)
(***************************************************************************)
Handles ==
    {Ref(OuterPromise)} \cup
    {calls[k].rt : k \in {j \in DOMAIN calls : /\ calls[j].status = "returned"
                                              /\ calls[j].rt # NoRef}}

Ready == Len(calls) < MaxCalls

(* The state the receiver is in when the call is made. *)
Pre(r) ==
    CASE r.kind = "completable" -> heap[r.id].state
      [] r.kind = "completed" -> FULFILLED
      [] OTHER -> REJECTED

NewCall(op, r, fn, arg, c) ==
    [op |-> op, recv |-> r, fn |-> fn, arg |-> arg, cause |-> c, pre |-> Pre(r),
     status |-> "running", rt |-> NoRef, rv |-> Nil, rc |-> NilError,
     runs |-> <<>>, blocked |-> FALSE]

(* A call on an immediate promise: no shared state, done in one step. *)
Immediate(c) ==
    /\ calls' = Append(calls, [c EXCEPT !.status = "returned"])
    /\ UNCHANGED <<heap, stack>>

(* x.Then(fn): CompletablePromise.Then, CompletedPromise.Then              *)
(* (part_000:39-41), RejectedPromise.Then (promise_test.go:416-418)        *)
Call_Then ==
    /\ Ready
    /\ \E r \in Handles, fn \in Transforms :
          LET t == Len(calls) + 1
              c == NewCall("Then", r, fn, Nil, NilError)
          IN  CASE r.kind = "completable" ->
                       Then(t, Frame("Then", "t_enter", r.id, UserFunc(t, fn), Nil,
                                     NilError), <<>>, Append(calls, c))
                [] r.kind = "completed" ->
                       Immediate([c EXCEPT !.rt = Completed(Apply(fn, r.value)),
                                           !.runs = <<[arg |-> r.value,
                                                       cause |-> NilError]>>])
                [] OTHER -> Immediate([c EXCEPT !.rt = r])

(* x.Catch(handler): CompletablePromise.Catch, CompletedPromise.Catch      *)
(* (part_000:48-50), RejectedPromise.Catch (promise_test.go:424-428)       *)
Call_Catch ==
    /\ Ready
    /\ \E r \in Handles :
          LET t == Len(calls) + 1
              c == NewCall("Catch", r, "", Nil, NilError)
          IN  CASE r.kind = "completable" ->
                       Catch(t, Frame("Catch", "k_enter", r.id, UserHandler(t), Nil,
                                      NilError), <<>>, Append(calls, c))
                [] r.kind = "rejected" ->
                       Immediate([c EXCEPT !.rt = r,
                                           !.runs = <<[arg |-> Nil,
                                                       cause |-> r.cause]>>])
                [] OTHER -> Immediate([c EXCEPT !.rt = r])

(* x.Combine(producer): CompletablePromise.Combine, CompletedPromise.      *)
(* Combine (part_000:44-46), RejectedPromise.Combine                       *)
(* (promise_test.go:420-422)                                               *)
Call_Combine ==
    /\ Ready
    /\ \E r \in Handles, fn \in Producers :
          LET t == Len(calls) + 1
              c == NewCall("Combine", r, fn, Nil, NilError)
          IN  CASE r.kind = "completable" ->
                       Combine(t, Frame("Combine", "m_enter", r.id,
                                        UserProducer(t, fn), Nil, NilError),
                               Append(calls, c))
                [] r.kind = "completed" ->
                       Immediate([c EXCEPT !.rt = Produce(fn, r.value),
                                           !.runs = <<[arg |-> r.value,
                                                       cause |-> NilError]>>])
                [] OTHER -> Immediate([c EXCEPT !.rt = r])

(* x.Get() on a completable promise *)
Call_Get ==
    /\ Ready
    /\ \E r \in {x \in Handles : x.kind = "completable"} :
          Get(Len(calls) + 1, Frame("Get", "g_enter", r.id, NoFunc, Nil, NilError),
              Append(calls, NewCall("Get", r, "", Nil, NilError)))

(* Goroutine t starts with frame f for the client call c. *)
Start(t, c, f) ==
    /\ stack' = [stack EXCEPT ![t] = <<f>>]
    /\ calls' = Append(calls, c)
    /\ heap' = heap

(* promise.Complete(v) *)
Call_Complete ==
    /\ Ready
    /\ \E p \in {OuterPromise, InnerPromise}, v \in Values :
          /\ v = Given(p)
          /\ Start(Len(calls) + 1, NewCall("Complete", Ref(p), "", v, NilError),
                   Frame("Complete", "c_lock", p, NoFunc, v, NilError))

(* promise.Reject(cause) *)
Call_Reject ==
    /\ Ready
    /\ \E p \in {OuterPromise, InnerPromise}, c \in Causes :
          Start(Len(calls) + 1, NewCall("Reject", Ref(p), "", Nil, c),
                Frame("Reject", "r_lock", p, NoFunc, Nil, c))

(***************************************************************************)
(* All (promise.go:59-93).  The fold runs on the goroutine of the caller:  *)
(* its frame holds the inputs (deps), the index of the next one (i) and    *)
(* the cursor (rt; NoRef is nil).                                          *)
(***************************************************************************)

(* The bound on the number of promises given to All. *)
MaxInputs == 2

(* A fold that takes the inputs from the last to the first. *)
Each_reversed(f) == f.deps[Len(f.deps) + 1 - f.i]

(* promise.go:62: for _, each := range promises *)
Each(f) == f.deps[f.i]

(* promise.go:62-92: one round of the loop, or return cursor *)
All_next(t) ==
    /\ At(t, "All", "a_next")
    /\ LET f == Top(t)
           cursor == f.rt
           each == Each(f)
           g == [f EXCEPT !.i = @ + 1]
           create == AllProducer(t, each)
       IN  IF f.i > Len(f.deps)
           THEN Return(t, f, Below(t), heap, calls, cursor)
           ELSE CASE cursor = NoRef /\ each.kind = "completable" ->
                        Continue(t, Below(t), heap, calls, g,
                            <<Frame("Then", "t_enter", each.id, WrapFunc, Nil,
                                    NilError)>>)
                  [] cursor = NoRef /\ each.kind = "completed" ->
                        Continue(t, Below(t), heap, calls,
                            [g EXCEPT !.rt = Completed(Wrapped(each.value))], <<>>)
                  [] cursor = NoRef ->
                        Continue(t, Below(t), heap, calls, [g EXCEPT !.rt = each], <<>>)
                  [] cursor.kind = "completable" ->
                        Continue(t, Below(t), heap, calls, g,
                            <<Frame("Combine", "m_enter", cursor.id, create, Nil,
                                    NilError)>>)
                  [] cursor.kind = "completed" ->
                        IF ProducerFrames(create, cursor.value) = <<>>
                        THEN Continue(t, Below(t), heap, calls,
                                 [g EXCEPT !.rt = Created(create, cursor.value)], <<>>)
                        ELSE Continue(t, Below(t), heap, calls, g,
                                 ProducerFrames(create, cursor.value))
                  [] OTHER -> Continue(t, Below(t), heap, calls, g, <<>>)

(* What the client gives to All: its two promises and Completed(1)         *)
(* (promise_test.go:237).                                                  *)
Inputs == {Ref(OuterPromise), Ref(InnerPromise), Completed(IntVal(1))}

(* All(inputs...) *)
Call_All ==
    /\ Ready
    /\ \E n \in 0..MaxInputs : \E inputs \in [1..n -> Inputs] :
          Start(Len(calls) + 1, NewCall("All", NoRef, "", inputs, NilError),
                [Frame("All", "a_next", 0, NoFunc, Nil, NilError)
                    EXCEPT !.deps = inputs, !.i = 1])

(***************************************************************************)
(* The specification.                                                      *)
(***************************************************************************)
Init ==
    /\ heap = <<Promise, Promise>>
    /\ stack = [t \in Threads |-> <<>>]
    /\ calls = <<>>

Step(t) ==
    \/ complete_compute(t) \/ complete_store(t)
    \/ Complete_broadcast(t) \/ Complete_dependencies(t)
    \/ Reject_transition(t) \/ Reject_handle(t)
    \/ Reject_broadcast(t) \/ Reject_dependencies(t)
    \/ Then_enter(t) \/ then(t) \/ Then_return(t)
    \/ Catch_enter(t) \/ Catch_locked(t) \/ Catch_return(t)
    \/ Combine_locked(t)
    \/ Outer_create(t) \/ Outer_catch(t) \/ Outer_return(t)
    \/ Get_locked(t) \/ Get_woken(t)

Next ==
    \/ Call_Then \/ Call_Catch \/ Call_Combine
    \/ Call_Get \/ Call_Complete \/ Call_Reject
    \/ \E t \in Threads : Step(t)

Spec == Init /\ [][Next]_vars

(***************************************************************************)
(* The client that keeps to the protocol: it settles a promise at most     *)
(* once.  Every goroutine that can take a step eventually takes one (the   *)
(* Go scheduler is preemptive, and a mutex is locked finitely often).      *)
(***************************************************************************)
Settles(cs, k) == cs[k].op \in {"Complete", "Reject"}

SettledOnce(cs) ==
    \A j, k \in DOMAIN cs :
        (j # k /\ Settles(cs, j) /\ Settles(cs, k)) => cs[j].recv # cs[k].recv

Protocol_Complete == Call_Complete /\ SettledOnce(calls')

Protocol_Reject == Call_Reject /\ SettledOnce(calls')

LiveNext ==
    \/ Call_Then \/ Call_Catch \/ Call_Combine \/ Call_Get
    \/ Protocol_Complete \/ Protocol_Reject
    \/ \E t \in Threads : Step(t)

LiveSpec ==
    /\ Init
    /\ [][LiveNext]_vars
    /\ \A t \in Threads : WF_vars(Step(t))

(***************************************************************************)
(* The client of All: it calls All once, settles each of its promises at   *)
(* most once and calls Get.                                                *)
(***************************************************************************)
Single_All == Call_All /\ \A k \in DOMAIN calls : calls[k].op # "All"

(* The cause the client of All rejects promise p with: a different one for *)
(* each promise, so that the cause of the result names the input.          *)
Blame(p) == IF p = InnerPromise THEN 2 ELSE 1

All_Reject ==
    /\ Ready
    /\ \E p \in {OuterPromise, InnerPromise} :
          Start(Len(calls) + 1, NewCall("Reject", Ref(p), "", Nil, Blame(p)),
                Frame("Reject", "r_lock", p, NoFunc, Nil, Blame(p)))
    /\ SettledOnce(calls')

AllStep(t) ==
    \/ Step(t)
    \/ All_next(t) \/ Combine_enter(t) \/ Combine_return(t) \/ Outer_made(t)

AllNext ==
    \/ Single_All \/ Call_Get
    \/ Protocol_Complete \/ All_Reject
    \/ \E t \in Threads : AllStep(t)

AllSpec ==
    /\ Init
    /\ [][AllNext]_vars
    /\ \A t \in Threads : WF_vars(AllStep(t))

(***************************************************************************)
(* The client that breaks the rules: it rejects with a nil cause, makes a  *)
(* Rejected promise of a nil cause, gives Catch a handler that panics, and *)
(* settles promises that Then, Catch and Combine returned.                 *)
(***************************************************************************)

(* A call on an immediate promise, or the making of one, that panics. *)
ImmediateFault(c) ==
    /\ calls' = Append(calls, [c EXCEPT !.status = "faulted"])
    /\ UNCHANGED <<heap, stack>>

(* promise.Reject(nil) *)
Reject_nil ==
    /\ Ready
    /\ \E p \in {OuterPromise, InnerPromise} :
          Start(Len(calls) + 1, NewCall("Reject", Ref(p), "", Nil, NilError),
                Frame("Reject", "r_lock", p, NoFunc, Nil, NilError))

(* Rejected(cause) (promise_test.go:392-402): panics when cause is nil *)
Call_Rejected ==
    /\ Ready
    /\ \E c \in Causes \cup {NilError} :
          LET call == NewCall("Rejected", NoRef, "", Nil, c)
          IN  IF c = NilError
              THEN ImmediateFault(call)
              ELSE Immediate([call EXCEPT !.rt = Rejected(c)])

(* x.Catch(handler) with a handler that panics *)
Catch_faulty ==
    /\ Ready
    /\ \E r \in Handles :
          LET t == Len(calls) + 1
              c == NewCall("Catch", r, "fault", Nil, NilError)
          IN  CASE r.kind = "completable" ->
                       Catch(t, Frame("Catch", "k_enter", r.id, FaultyHandler(t), Nil,
                                      NilError), <<>>, Append(calls, c))
                [] r.kind = "rejected" ->
                       ImmediateFault([c EXCEPT !.runs = <<[arg |-> Nil,
                                                            cause |-> r.cause]>>])
                [] OTHER -> Immediate([c EXCEPT !.rt = r])

(* The promises Then, Catch and Combine returned to the client. *)
Derived ==
    {r \in Handles : r.kind = "completable" /\ r.id \notin {OuterPromise, InnerPromise}}

(* derived.Complete(v) *)
Complete_derived ==
    /\ Ready
    /\ \E r \in Derived :
          Start(Len(calls) + 1, NewCall("Complete", r, "", Given(r.id), NilError),
                Frame("Complete", "c_lock", r.id, NoFunc, Given(r.id), NilError))

(* derived.Reject(cause) *)
Reject_derived ==
    /\ Ready
    /\ \E r \in Derived, c \in Causes :
          Start(Len(calls) + 1, NewCall("Reject", r, "", Nil, c),
                Frame("Reject", "r_lock", r.id, NoFunc, Nil, c))

MisuseNext ==
    \/ Next
    \/ Reject_nil \/ Call_Rejected \/ Catch_faulty
    \/ Complete_derived \/ Reject_derived

MisuseSpec == Init /\ [][MisuseNext]_vars

(***************************************************************************)
(* The client of TestReentrantComplete (promise_test.go:56-93), with its   *)
(* three calls made by goroutines of their own, in any order:              *)
(* b.Combine(bValue => a.Then(aValue => bValue + aValue)),                 *)
(* a.Then(value => { b.Complete(3); return nil }) and a.Complete(2).       *)
(***************************************************************************)
Once(op, r) == \A k \in DOMAIN calls : ~(calls[k].op = op /\ calls[k].recv = r)

(* promise_test.go:65-72 *)
Reentrant_Combine ==
    /\ Ready /\ Once("Combine", Ref(InnerPromise))
    /\ LET t == Len(calls) + 1
       IN  Combine(t, Frame("Combine", "m_enter", InnerPromise,
                            UserProducer(t, "thenA"), Nil, NilError),
                   Append(calls, NewCall("Combine", Ref(InnerPromise), "thenA", Nil,
                                         NilError)))

(* promise_test.go:86-90 *)
Reentrant_Then ==
    /\ Ready /\ Once("Then", Ref(OuterPromise))
    /\ LET t == Len(calls) + 1
       IN  Then(t, Frame("Then", "t_enter", OuterPromise, UserFunc(t, "completeB"),
                         Nil, NilError),
                <<>>, Append(calls, NewCall("Then", Ref(OuterPromise), "completeB", Nil,
                                            NilError)))

(* promise_test.go:92 *)
Reentrant_Complete ==
    /\ Ready /\ Once("Complete", Ref(OuterPromise))
    /\ Start(Len(calls) + 1,
             NewCall("Complete", Ref(OuterPromise), "", Given(OuterPromise), NilError),
             Frame("Complete", "c_lock", OuterPromise, NoFunc, Given(OuterPromise),
                   NilError))

ReentrantStep(t) ==
    \/ complete_compute(t) \/ complete_store(t)
    \/ Complete_broadcast(t) \/ Complete_dependencies(t)
    \/ Then_enter(t) \/ then(t) \/ Then_return(t)
    \/ Combine_locked(t) \/ Combine_return(t)
    \/ Outer_create(t) \/ Outer_made(t) \/ Outer_catch(t) \/ Outer_return(t)

ReentrantNext ==
    \/ Reentrant_Combine \/ Reentrant_Then \/ Reentrant_Complete
    \/ \E t \in Threads : ReentrantStep(t)

ReentrantSpec ==
    /\ Init
    /\ [][ReentrantNext]_vars
    /\ \A t \in Threads : WF_vars(ReentrantStep(t))

(***************************************************************************)
(* Properties.                                                             *)
(***************************************************************************)
Range(s) == {s[i] : i \in DOMAIN s}

OnCompletable(k) == calls[k].recv.kind = "completable"

Returned(k) == calls[k].status = "returned"

(* The promise q was registered on. *)
Parent(q) == CHOOSE p \in DOMAIN heap : q \in Range(heap[p].dependencies)

(* The goroutine that settled p has returned to the client: the cascade    *)
(* it started is over.                                                     *)
CascadeOver(p) == heap[p].by # 0 /\ Returned(heap[p].by)

(* C1: every transform given to Then on a completable promise is invoked   *)
(* at most once, only with the promise's stored value, and exactly once    *)
(* when Then has returned and the Complete that fulfilled the promise has  *)
(* returned, whether Then registered a dependency or ran the transform     *)
(* itself.                                                                 *)
C1_TransformOnce ==
    \A k \in DOMAIN calls :
        (calls[k].op = "Then" /\ OnCompletable(k)) =>
            LET p == calls[k].recv.id
                ran == [arg |-> heap[p].value, cause |-> NilError]
            IN  /\ Len(calls[k].runs) <= 1
                /\ calls[k].runs # <<>> => calls[k].runs = <<ran>>
                /\ (Returned(k) /\ heap[p].state = FULFILLED /\ CascadeOver(p))
                       => calls[k].runs = <<ran>>

(* Two Then calls raced with Complete on the outer promise: one registered *)
(* a dependency, the other found the promise fulfilled under the lock.     *)
C1_Witness ==
    \E j, k \in DOMAIN calls :
        /\ calls[j].op = "Then" /\ calls[k].op = "Then"
        /\ calls[j].recv = Ref(OuterPromise) /\ calls[k].recv = Ref(OuterPromise)
        /\ Returned(j) /\ Returned(k)
        /\ calls[j].pre = PENDING /\ calls[j].rt.kind = "completed"
        /\ calls[k].rt.kind = "completable"
        /\ Len(calls[j].runs) = 1 /\ Len(calls[k].runs) = 1
        /\ CascadeOver(OuterPromise)

(* C2: a promise is made pending, and a state other than pending never     *)
(* changes.                                                                *)
C2_StateMonotonic ==
    [][\A p \in DOMAIN heap' :
          IF p \in DOMAIN heap
          THEN heap[p].state # PENDING => heap'[p].state = heap[p].state
          ELSE heap'[p].state = PENDING]_vars

(* A rejected promise on which a later Complete has ended. *)
C2_Witness ==
    \E k \in DOMAIN calls :
        /\ calls[k].op = "Complete" /\ calls[k].status # "running"
        /\ calls[k].pre = REJECTED
        /\ heap[calls[k].recv.id].state = REJECTED

SettleCalled(p) ==
    \/ heap[p].state # PENDING
    \/ \E t \in Threads : \E i \in DOMAIN stack[t] :
          stack[t][i].op \in {"Complete", "Reject"} /\ stack[t][i].p = p

GetRuns(k) == k \in DOMAIN calls /\ calls[k].op = "Get" /\ calls[k].status = "running"

(* C4: a Get that has not returned returns eventually once Complete or     *)
(* Reject is called on its promise.                                        *)
C4_GetReturns ==
    \A k \in Threads :
        (GetRuns(k) /\ SettleCalled(calls[k].recv.id)) ~>
            (k \in DOMAIN calls /\ Returned(k))

(* Two Get calls that were parked in Wait have both returned. *)
C4_Witness ==
    \E j, k \in DOMAIN calls :
        /\ j # k
        /\ calls[j].op = "Get" /\ calls[j].blocked /\ Returned(j)
        /\ calls[k].op = "Get" /\ calls[k].blocked /\ Returned(k)

(* C5: a Get that has returned finds its promise settled; it returned the  *)
(* stored value and no cause when fulfilled, no value and the stored,      *)
(* non-nil cause when rejected.                                            *)
C5_GetResult ==
    \A k \in DOMAIN calls :
        (calls[k].op = "Get" /\ Returned(k)) =>
            LET p == calls[k].recv.id
            IN  /\ heap[p].state # PENDING
                /\ heap[p].state = FULFILLED =>
                       calls[k].rv = heap[p].value /\ calls[k].rc = NilError
                /\ heap[p].state = REJECTED =>
                       /\ calls[k].rv = Nil
                       /\ calls[k].rc = heap[p].cause
                       /\ calls[k].rc # NilError

(* A Get that was parked on a promise made by Then has returned the cause  *)
(* the promise was rejected with, and no value.                            *)
C5_Witness ==
    \E k \in DOMAIN calls :
        /\ calls[k].op = "Get" /\ Returned(k) /\ calls[k].blocked
        /\ calls[k].rc \in Causes /\ calls[k].rv = Nil
        /\ \E j \in DOMAIN calls : calls[j].op = "Then" /\ calls[j].rt = calls[k].recv

(* The promises Reject on q rejects next: its dependencies, and the        *)
(* placeholder of Combine that its handler rejects.                        *)
RejectChildren(q) ==
    Range(heap[q].dependencies) \cup
    (IF heap[q].handle.kind = "combReject" THEN {heap[q].handle.target} ELSE {})

RECURSIVE RejectReach(_, _)
RejectReach(S, n) ==
    IF n = 0 THEN S
    ELSE RejectReach(S \cup UNION {RejectChildren(q) : q \in S}, n - 1)

(* Everything registered on p, directly or through another promise,        *)
(* by Then, Catch or Combine.                                              *)
Registered(p) == RejectReach(RejectChildren(p), Len(heap))

(* C6: when a Reject(cause) of the client has returned, every promise      *)
(* registered on its promise, directly or through other promises, by Then, *)
(* Catch or Combine (the placeholder included) is rejected with that       *)
(* cause.                                                                  *)
C6_RejectReachesAll ==
    \A k \in DOMAIN calls :
        (calls[k].op = "Reject" /\ Returned(k)) =>
            \A q \in Registered(calls[k].recv.id) :
                /\ heap[q].state = REJECTED
                /\ heap[q].cause = calls[k].cause

(* A Reject has returned on a promise with a dependency made by Catch      *)
(* that has a dependency of its own, or with the dependencies and the      *)
(* placeholder of a Combine.                                               *)
C6_Witness ==
    \E k \in DOMAIN calls :
        /\ calls[k].op = "Reject" /\ Returned(k)
        /\ \E q \in Range(heap[calls[k].recv.id].dependencies) :
              /\ heap[q].via = "catch"
              /\ heap[q].handle.kind = "userH"
              /\ Len(calls[heap[q].handle.id].runs) = 1
              /\ heap[q].dependencies # <<>>

(* The cause a Catch call's receiver is rejected with (nil if it is not). *)
RejectedWith(k) ==
    CASE calls[k].recv.kind = "rejected" -> calls[k].recv.cause
      [] calls[k].recv.kind = "completable"
           /\ heap[calls[k].recv.id].state = REJECTED -> heap[calls[k].recv.id].cause
      [] OTHER -> NilError

(* C7: the handler of a Catch call is invoked at most once, only with the  *)
(* cause its receiver is rejected with, and exactly once when Catch has    *)
(* returned and the Reject that rejected the receiver has returned (at     *)
(* once on an immediate rejected promise).                                 *)
C7_HandlerOnce ==
    \A k \in DOMAIN calls :
        calls[k].op = "Catch" =>
            LET ran == [arg |-> Nil, cause |-> RejectedWith(k)]
            IN  /\ Len(calls[k].runs) <= 1
                /\ calls[k].runs # <<>> =>
                       calls[k].runs = <<ran>> /\ RejectedWith(k) # NilError
                /\ (calls[k].recv.kind = "rejected" /\ Returned(k))
                       => calls[k].runs = <<ran>>
                /\ (/\ OnCompletable(k) /\ Returned(k)
                    /\ RejectedWith(k) # NilError
                    /\ CascadeOver(calls[k].recv.id))
                       => calls[k].runs = <<ran>>

(* Three handlers have run once each: one registered on the outer promise  *)
(* before Reject, one whose Catch found the promise rejected only under    *)
(* the lock, and one given to Catch on what Then returned.                 *)
C7_Witness ==
    \E i, j \in DOMAIN calls :
        /\ calls[i].op = "Catch" /\ calls[i].recv = Ref(OuterPromise)
        /\ calls[i].rt.kind = "completable" /\ Len(calls[i].runs) = 1
        /\ calls[j].op = "Catch" /\ calls[j].recv = Ref(OuterPromise)
        /\ calls[j].pre = PENDING /\ calls[j].rt.kind = "rejected"
        /\ Len(calls[j].runs) = 1

(* C8: a transform given to Then and a producer given to Combine have run  *)
(* only if the receiver is fulfilled; on a rejected receiver they never    *)
(* run.                                                                    *)
C8_NotRunWhenRejected ==
    \A k \in DOMAIN calls :
        (calls[k].op \in {"Then", "Combine"} /\ calls[k].runs # <<>>) =>
            IF OnCompletable(k)
            THEN heap[calls[k].recv.id].state = FULFILLED
            ELSE calls[k].recv.kind = "completed"

(* A Then and a Combine were registered on a pending promise, the promise  *)
(* was rejected and the Reject returned: neither function has run.         *)
C8_Witness ==
    \E i, j, k \in DOMAIN calls :
        /\ calls[i].op = "Then" /\ calls[i].rt.kind = "completable"
        /\ calls[j].op = "Combine" /\ calls[j].rt.kind = "completable"
        /\ calls[i].recv = calls[j].recv
        /\ calls[k].op = "Reject" /\ calls[k].recv = calls[i].recv /\ Returned(k)
        /\ calls[i].runs = <<>> /\ calls[j].runs = <<>>
        /\ heap[calls[i].rt.id].state = REJECTED
        /\ heap[calls[j].rt.id].state = REJECTED

(* The promises registered on q by Then or Catch. *)
ThenCatchChildren(q) ==
    {d \in Range(heap[q].dependencies) : heap[d].via \in {"then", "catch"}}

RECURSIVE ThenCatchReach(_, _)
ThenCatchReach(S, n) ==
    IF n = 0 THEN S
    ELSE ThenCatchReach(S \cup UNION {ThenCatchChildren(q) : q \in S}, n - 1)

(* C9: when a Complete of the client has returned, every promise           *)
(* registered on its promise through Then or Catch, directly or through    *)
(* such promises, is fulfilled, and every transform among them has run.    *)
C9_CompleteCascades ==
    \A k \in DOMAIN calls :
        (calls[k].op = "Complete" /\ Returned(k)) =>
            \A q \in ThenCatchReach(ThenCatchChildren(calls[k].recv.id), Len(heap)) :
                /\ heap[q].state = FULFILLED
                /\ heap[q].compute.kind = "user" =>
                       Len(calls[heap[q].compute.id].runs) = 1

(* A Complete has returned on a promise with a Then dependency that has a  *)
(* Then dependency of its own, and with a Catch dependency.                *)
C9_Witness ==
    \E k \in DOMAIN calls :
        /\ calls[k].op = "Complete" /\ Returned(k)
        /\ \E q \in ThenCatchChildren(calls[k].recv.id) :
              /\ heap[q].via = "then"
              /\ \E d \in ThenCatchChildren(q) : heap[d].via = "then"

(* C10: a fulfilled promise made by Then holds its transform applied to    *)
(* the stored value of the promise it was registered on; the placeholder   *)
(* of Combine with the producer x => Completed(x + 3) holds the receiver's *)
(* value plus 3; and Get returns what is stored.                           *)
C10_StoredValues ==
    /\ \A d \in DOMAIN heap :
          (heap[d].via = "then" /\ heap[d].compute.kind = "user"
              /\ heap[d].state = FULFILLED) =>
                /\ heap[Parent(d)].state = FULFILLED
                /\ heap[d].value = Apply(heap[d].compute.fn, heap[Parent(d)].value)
    /\ \A k \in DOMAIN calls :
          (calls[k].op = "Combine" /\ calls[k].fn = "plus3" /\ OnCompletable(k)
              /\ calls[k].rt.kind = "completable"
              /\ heap[calls[k].rt.id].state = FULFILLED) =>
                /\ heap[calls[k].recv.id].state = FULFILLED
                /\ heap[calls[k].rt.id].value =
                       IntVal(AsInt(heap[calls[k].recv.id].value) + 3)
    /\ \A k \in DOMAIN calls :
          (calls[k].op = "Get" /\ Returned(k)
              /\ heap[calls[k].recv.id].state = FULFILLED) =>
                calls[k].rv = heap[calls[k].recv.id].value

(* squared and cubed of promise_test.go:100-139: the outer promise holds   *)
(* 2, the promise made by Then(sq) on it holds 4, and the promise made by  *)
(* Then(cube) on that one holds 64.                                        *)
C10_Witness ==
    \E i, j \in DOMAIN calls :
        /\ calls[i].op = "Then" /\ calls[i].fn = "sq"
        /\ calls[i].recv = Ref(OuterPromise) /\ calls[i].pre = PENDING
        /\ calls[j].op = "Then" /\ calls[j].fn = "cube"
        /\ calls[j].recv = calls[i].rt /\ calls[j].pre = PENDING
        /\ calls[j].rt.kind = "completable"
        /\ heap[OuterPromise].value = IntVal(2)
        /\ heap[calls[i].rt.id].value = IntVal(4)
        /\ heap[calls[j].rt.id].value = IntVal(64)

(* The placeholder Combine call k registered (0: none, Combine returned    *)
(* what the producer made, or an immediate promise).                       *)
Placeholder(k) ==
    IF /\ calls[k].op = "Combine" /\ OnCompletable(k)
       /\ calls[k].rt.kind = "completable"
       /\ heap[calls[k].rt.id].via = "placeholder"
    THEN calls[k].rt.id
    ELSE 0

(* What the producer of Combine call k returns for the receiver's value. *)
InnerOf(k) == Produce(calls[k].fn, heap[calls[k].recv.id].value)

(* The Thenable r is still pending. *)
IsPending(r) == r.kind = "completable" /\ heap[r.id].state = PENDING

(* C11: while the receiver of a Combine is pending the placeholder it      *)
(* returned is pending, and while the receiver is fulfilled and the        *)
(* promise the producer returned is pending the placeholder is pending.    *)
C11_CombineNotSooner ==
    \A k \in DOMAIN calls :
        Placeholder(k) # 0 =>
            LET p == calls[k].recv.id
            IN  heap[Placeholder(k)].state # PENDING =>
                    /\ heap[p].state # PENDING
                    /\ heap[p].state = FULFILLED => ~IsPending(InnerOf(k))

(* The receiver of a Combine is fulfilled and its Complete has returned    *)
(* while the promise the producer returned is pending: the placeholder is  *)
(* pending.                                                                *)
C11_Witness ==
    \E k \in DOMAIN calls :
        /\ Placeholder(k) # 0
        /\ heap[calls[k].recv.id].state = FULFILLED
        /\ CascadeOver(calls[k].recv.id)
        /\ calls[k].runs # <<>>
        /\ IsPending(InnerOf(k))
        /\ heap[Placeholder(k)].state = PENDING

(* The Thenable r is settled and the goroutine that settled it is done. *)
SettledFor(r) ==
    \/ r.kind \in {"completed", "rejected"}
    \/ r.kind = "completable" /\ heap[r.id].state # PENDING /\ CascadeOver(r.id)

(* The value and the cause the Thenable r holds. *)
ValueOf(r) == IF r.kind = "completable" THEN heap[r.id].value ELSE r.value
CauseOf(r) == IF r.kind = "completable" THEN heap[r.id].cause ELSE r.cause

(* C12: the placeholder Combine returned on a pending receiver is          *)
(* fulfilled only with the value of the promise the producer returned and  *)
(* rejected only with the cause of the receiver or of that promise; it is  *)
(* rejected with the receiver's cause once the receiver's Reject has       *)
(* returned, and settled like the produced promise once the receiver's     *)
(* Complete has returned and the produced promise is settled.              *)
C12_CombineResult ==
    \A k \in DOMAIN calls :
        Placeholder(k) # 0 =>
            LET p == calls[k].recv.id
                pl == heap[Placeholder(k)]
                inner == InnerOf(k)
            IN  /\ pl.state = FULFILLED =>
                       /\ heap[p].state = FULFILLED
                       /\ pl.value = ValueOf(inner)
                       /\ pl.cause = NilError
                /\ pl.state = REJECTED =>
                       /\ pl.value = Nil
                       /\ pl.cause = IF heap[p].state = REJECTED
                                     THEN heap[p].cause ELSE CauseOf(inner)
                       /\ pl.cause # NilError
                /\ (heap[p].state = REJECTED /\ CascadeOver(p)) =>
                       pl.state = REJECTED
                /\ (heap[p].state = FULFILLED /\ CascadeOver(p) /\ SettledFor(inner)) =>
                       pl.state = IF CauseOf(inner) = NilError
                                  THEN FULFILLED ELSE REJECTED

(* The receiver was completed with 2, the closure found the inner promise  *)
(* pending and registered on it, and the inner promise was completed with  *)
(* 3 afterwards: the placeholder holds 3.                                  *)
C12_Witness ==
    \E k \in DOMAIN calls :
        /\ Placeholder(k) # 0
        /\ calls[k].fn = "inner"
        /\ heap[calls[k].recv.id].value = IntVal(2)
        /\ calls[k].recv.id # InnerPromise
        /\ heap[InnerPromise].dependencies # <<>>
        /\ heap[Placeholder(k)].state = FULFILLED
        /\ heap[Placeholder(k)].value = IntVal(3)

(* The state of the Thenable r. *)
StateOf(r) ==
    CASE r.kind = "completable" -> heap[r.id].state
      [] r.kind = "completed" -> FULFILLED
      [] r.kind = "rejected" -> REJECTED
      [] OTHER -> PENDING

(* The values the Thenables of the sequence rs hold, in the order of rs. *)
ValuesOf(rs) == ListVal([i \in DOMAIN rs |-> AsInt(ValueOf(rs[i]))])

(* Call k is a call of All with at least one input that has returned. *)
AllReturned(k) ==
    calls[k].op = "All" /\ Returned(k) /\ calls[k].arg # <<>>

(* C13: the result of All is fulfilled only when every input is fulfilled, *)
(* it then holds the inputs' values in input order, and it is fulfilled    *)
(* once every input is fulfilled and All and the calls that completed the  *)
(* inputs have returned.                                                   *)
C13_AllInOrder ==
    \A k \in DOMAIN calls :
        AllReturned(k) =>
            LET inputs == calls[k].arg
                result == calls[k].rt
            IN  /\ StateOf(result) = FULFILLED =>
                       /\ \A i \in DOMAIN inputs : StateOf(inputs[i]) = FULFILLED
                       /\ ValueOf(result) = ValuesOf(inputs)
                /\ (\A i \in DOMAIN inputs :
                        StateOf(inputs[i]) = FULFILLED /\ SettledFor(inputs[i]))
                       => StateOf(result) = FULFILLED

(* All(b, a) was called while b was pending, a was completed with 2 before *)
(* the fold reached it and b with 3: the result holds [3, 2].              *)
C13_Witness ==
    \E k \in DOMAIN calls :
        /\ AllReturned(k)
        /\ calls[k].arg = <<Ref(InnerPromise), Ref(OuterPromise)>>
        /\ calls[k].rt.kind = "completable"
        /\ heap[calls[k].rt.id].via = "placeholder"
        /\ heap[OuterPromise].dependencies = <<>>
        /\ heap[calls[k].rt.id].state = FULFILLED
        /\ heap[calls[k].rt.id].value = ListVal(<<3, 2>>)

(* C14: All called with no inputs returns an already-fulfilled promise     *)
(* whose value is the empty collection.                                    *)
C14_EmptyAll ==
    \A k \in DOMAIN calls :
        (calls[k].op = "All" /\ Returned(k) /\ calls[k].arg = <<>>) =>
            /\ calls[k].rt # NoRef
            /\ StateOf(calls[k].rt) = FULFILLED
            /\ ValueOf(calls[k].rt) = ListVal(<<>>)

(* Input i of the All call k is rejected. *)
RejectedInput(k, i) == StateOf(calls[k].arg[i]) = REJECTED

(* The causes of the rejected inputs of the All call k. *)
RejectedCauses(k) ==
    {CauseOf(calls[k].arg[i]) : i \in {j \in DOMAIN calls[k].arg : RejectedInput(k, j)}}

(* The All call k has returned a result that is rejected with the cause of *)
(* one of its rejected inputs.                                             *)
AllRejected(k) ==
    /\ k \in DOMAIN calls /\ Returned(k)
    /\ StateOf(calls[k].rt) = REJECTED
    /\ CauseOf(calls[k].rt) \in RejectedCauses(k)

(* Call k is the call of All (the client calls All once), every one of its *)
(* inputs has settled and at least one of them is rejected.                *)
AllSettledOneRejected(k) ==
    /\ calls[k].op = "All"
    /\ \A i \in DOMAIN calls[k].arg : StateOf(calls[k].arg[i]) # PENDING
    /\ \E i \in DOMAIN calls[k].arg : RejectedInput(k, i)

(* C15: when every input of All has settled and at least one of them is    *)
(* rejected, the result of All is eventually rejected, and the cause of a  *)
(* rejected result is always the cause of one of the rejected inputs.      *)
C15_AllRejects ==
    /\ (\E k \in DOMAIN calls : AllSettledOneRejected(k))
           ~> (\E k \in DOMAIN calls : calls[k].op = "All" /\ AllRejected(k))
    /\ [](\A k \in DOMAIN calls :
             (AllReturned(k) /\ StateOf(calls[k].rt) = REJECTED) => AllRejected(k))

(* All(a, b) was called while both were pending, b was rejected and then   *)
(* a was completed: the result is rejected with the cause of b.            *)
C15_Witness ==
    \E k \in DOMAIN calls :
        /\ AllReturned(k)
        /\ calls[k].arg = <<Ref(OuterPromise), Ref(InnerPromise)>>
        /\ heap[OuterPromise].dependencies # <<>>
        /\ heap[OuterPromise].state = FULFILLED
        /\ heap[InnerPromise].state = REJECTED
        /\ calls[k].rt.kind = "completable"
        /\ heap[calls[k].rt.id].state = REJECTED
        /\ heap[calls[k].rt.id].cause = Blame(InnerPromise)

(* Call k is Reject(nil). *)
RejectNil(k) == calls[k].op = "Reject" /\ calls[k].cause = NilError

(* C16: Reject with a nil cause never returns normally and its goroutine   *)
(* changes no promise and invokes no user function (the promise stays as   *)
(* it was: no handler run, no dependent rejected); making a Rejected       *)
(* promise of a nil cause panics; and no rejected promise, in the heap or  *)
(* held by the client, has a nil cause.                                    *)
C16_NilCause ==
    /\ [](\A k \in DOMAIN calls :
             /\ RejectNil(k) => ~Returned(k) /\ calls[k].runs = <<>>
             /\ (calls[k].op = "Rejected" /\ calls[k].cause = NilError)
                    => calls[k].status = "faulted" /\ calls[k].rt = NoRef)
    /\ [](\A p \in DOMAIN heap : heap[p].state = REJECTED => heap[p].cause # NilError)
    /\ [](\A k \in DOMAIN calls :
             calls[k].rt.kind = "rejected" => calls[k].rt.cause # NilError)
    /\ [][\A k \in DOMAIN calls :
             (RejectNil(k) /\ stack'[k] # stack[k]) =>
                 /\ heap' = heap
                 /\ calls'[k].status = "faulted"
                 /\ \A j \in DOMAIN calls : calls'[j].runs = calls[j].runs]_vars

(* Reject(nil) has panicked on a pending promise that has a dependent with *)
(* a handler, and Rejected(nil) has panicked: the promise and its          *)
(* dependent are pending and the handler has not run.                      *)
C16_Witness ==
    \E j, k, l \in DOMAIN calls :
        /\ RejectNil(k) /\ calls[k].status = "faulted"
        /\ calls[k].recv = Ref(OuterPromise)
        /\ heap[OuterPromise].state = PENDING
        /\ calls[j].op = "Catch" /\ calls[j].recv = Ref(OuterPromise)
        /\ j < k /\ Returned(j) /\ calls[j].runs = <<>>
        /\ heap[calls[j].rt.id].state = PENDING
        /\ calls[l].op = "Rejected" /\ calls[l].cause = NilError
        /\ calls[l].status = "faulted"

(* C17: when the handler of a promise made by Catch panics while Reject    *)
(* invokes it, the dependents of that promise are still rejected with the  *)
(* cause and the goroutines parked in Get on it are still woken: once the  *)
(* client call whose goroutine rejected the promise has ended, every       *)
(* dependent is rejected with the cause and nobody waits on the promise.   *)
C17_FaultyHandler ==
    \A q \in DOMAIN heap :
        (/\ heap[q].state = REJECTED
         /\ Faults(heap[q].handle)
         /\ calls[heap[q].by].status # "running") =>
            /\ \A d \in Range(heap[q].dependencies) :
                   heap[d].state = REJECTED /\ heap[d].cause = heap[q].cause
            /\ heap[q].waiters = {}

(* C19: Complete on a promise that is not pending panics before the        *)
(* transform is applied: the transform of a promise made by Then is        *)
(* invoked at most once whatever Complete and Reject calls are made on     *)
(* that promise, and never when the promise is rejected.                   *)
C19_CheckBeforeTransform ==
    \A q \in DOMAIN heap :
        heap[q].compute.kind = "user" =>
            LET runs == calls[heap[q].compute.id].runs
            IN  /\ Len(runs) <= 1
                /\ heap[q].state = REJECTED => runs = <<>>

(* The callback of call k, value => { b.Complete(3); return nil }, has run. *)
CompletedB(k) == calls[k].fn = "completeB" /\ calls[k].runs # <<>>

(* C18: re-entrant completion does not deadlock.  With a Then callback on  *)
(* a that completes b, and a Combine on b whose producer calls a.Then,     *)
(* every call of the client returns (none waits forever for a mutex, none  *)
(* panics), the callback ran once, with the value of a, when a was         *)
(* fulfilled, and once the three calls are made the result of Combine is   *)
(* eventually fulfilled with the sum of the values of a and b.             *)
C18_Reentrant ==
    /\ \A k \in Threads : (k \in DOMAIN calls) ~> (k \in DOMAIN calls /\ Returned(k))
    /\ [](\A k \in DOMAIN calls :
             /\ calls[k].status # "faulted"
             /\ CompletedB(k) =>
                    /\ heap[OuterPromise].state = FULFILLED
                    /\ heap[OuterPromise].value = Given(OuterPromise)
                    /\ calls[k].runs = <<[arg |-> Given(OuterPromise),
                                          cause |-> NilError]>>
             /\ (calls[k].fn = "thenA" /\ Returned(k)
                    /\ StateOf(calls[k].rt) = FULFILLED)
                    => ValueOf(calls[k].rt) = IntVal(5))
    /\ (\A op \in {"Combine", "Then", "Complete"} :
            \E k \in DOMAIN calls : calls[k].op = op)
           ~> (\E k \in DOMAIN calls :
                  /\ calls[k].fn = "thenA" /\ Returned(k)
                  /\ StateOf(calls[k].rt) = FULFILLED
                  /\ ValueOf(calls[k].rt) = IntVal(5))

(* The test's order: Combine registered on the pending b, Then registered  *)
(* on the pending a, then a.Complete(2) ran the callback, which completed  *)
(* b, whose closure called a.Then on the fulfilled a: all three calls have *)
(* returned and the placeholder holds 5.                                   *)
C18_Witness ==
    \E j, k, l \in DOMAIN calls :
        /\ calls[j].fn = "thenA" /\ calls[j].pre = PENDING /\ Returned(j)
        /\ calls[j].rt.kind = "completable"
        /\ heap[calls[j].rt.id].via = "placeholder"
        /\ CompletedB(k) /\ Returned(k) /\ calls[k].rt.kind = "completable"
        /\ calls[l].op = "Complete" /\ Returned(l) /\ j < l /\ k < l
        /\ heap[InnerPromise].by = l
        /\ heap[InnerPromise].state = FULFILLED
        /\ heap[calls[j].rt.id].state = FULFILLED
        /\ heap[calls[j].rt.id].value = IntVal(5)

(* completable.go:50-52 *)
Resolved(h, p) == State(h, p) = FULFILLED

(* completable.go:54-56: CompletablePromise.Rejected *)
IsRejected(h, p) == State(h, p) = REJECTED

(* C20: terminal reads are idempotent.  All the Get calls on a promise     *)
(* that have returned, from whatever goroutine, returned the same value    *)
(* and cause; what Get reads of a settled promise (value and cause) and    *)
(* the answers of Resolved and Rejected are changed by no step of any      *)
(* operation.                                                              *)
C20_TerminalReads ==
    /\ [](\A j, k \in DOMAIN calls :
             (/\ calls[j].op = "Get" /\ Returned(j)
              /\ calls[k].op = "Get" /\ Returned(k)
              /\ calls[j].recv = calls[k].recv) =>
                 calls[j].rv = calls[k].rv /\ calls[j].rc = calls[k].rc)
    /\ [][\A p \in DOMAIN heap :
             (Resolved(heap, p) \/ IsRejected(heap, p)) =>
                 /\ heap'[p].value = heap[p].value
                 /\ heap'[p].cause = heap[p].cause
                 /\ Resolved(heap', p) = Resolved(heap, p)
                 /\ IsRejected(heap', p) = IsRejected(heap, p)]_vars

(* A Get that was parked on the pending promise and a Get called after the *)
(* promise was completed have both returned its value and no cause.        *)
C20_Witness ==
    \E j, k, l \in DOMAIN calls :
        /\ calls[j].op = "Get" /\ calls[j].blocked /\ Returned(j)
        /\ calls[k].op = "Get" /\ calls[k].pre = FULFILLED /\ Returned(k)
        /\ calls[j].recv = calls[k].recv
        /\ calls[l].op = "Complete" /\ calls[l].recv = calls[j].recv
        /\ calls[j].rv = calls[l].arg /\ calls[k].rv = calls[l].arg
        /\ calls[j].rc = NilError /\ calls[k].rc = NilError

(* Frame n of goroutine t is Complete in its loop over the dependencies. *)
InCascade(t, n) == stack[t][n].op = "Complete" /\ stack[t][n].pc = "c_deps"

(* C21: while Complete on a promise walks the dependencies, the promise is *)
(* fulfilled and holds the value; the dependencies walked are the ones     *)
(* registered, in the order of registration: those before the current one  *)
(* are fulfilled, those after it are still pending; and a Complete on a    *)
(* dependency of a promise is the call made from the loop of Complete on   *)
(* that promise, on the current dependency, after the promise was          *)
(* fulfilled.                                                              *)
C21_DependentsInOrder ==
    \A t \in Threads : \A n \in 1..Len(stack[t]) :
        LET f == stack[t][n]
        IN  /\ InCascade(t, n) =>
                   /\ heap[f.p].state = FULFILLED
                   /\ f.val # Nil => heap[f.p].value = f.val
                   /\ f.deps = heap[f.p].dependencies
                   /\ \A j \in DOMAIN f.deps :
                          /\ j < f.i - 1 => heap[f.deps[j]].state = FULFILLED
                          /\ (j = f.i - 1 /\ n = Len(stack[t]))
                                 => heap[f.deps[j]].state = FULFILLED
                          /\ j >= f.i => heap[f.deps[j]].state = PENDING
            /\ \A P \in DOMAIN heap :
                   (f.op = "Complete" /\ f.p \in Range(heap[P].dependencies)) =>
                       /\ n > 1 /\ InCascade(t, n - 1)
                       /\ stack[t][n - 1].p = P
                       /\ f.p = stack[t][n - 1].deps[stack[t][n - 1].i - 1]
                       /\ heap[P].state = FULFILLED

(* Complete on a promise with two dependencies has completed the first     *)
(* and has not yet called the second.                                      *)
C21_Witness ==
    \E t \in Threads :
        /\ Len(stack[t]) = 1 /\ InCascade(t, 1)
        /\ Len(stack[t][1].deps) = 2 /\ stack[t][1].i = 2
        /\ heap[stack[t][1].deps[1]].state = FULFILLED
        /\ heap[stack[t][1].deps[2]].state = PENDING

(* The promises that carry the handler of a client's Catch call. *)
Handled == {q \in DOMAIN heap : heap[q].handle.kind = "userH"}

(* The invocations of the handler of q. *)
HandlerRuns(cs, q) == cs[heap[q].handle.id].runs

(* C22: the handler of a promise is invoked by Reject with the cause when  *)
(* the promise is already rejected with that cause and none of its         *)
(* dependencies is rejected yet; as long as the handler has not run, no    *)
(* dependency of the promise is rejected.                                  *)
C22_HandlerFirst ==
    /\ [](\A q \in Handled :
             /\ HandlerRuns(calls, q) = <<>> =>
                    \A d \in Range(heap[q].dependencies) : heap[d].state # REJECTED
             /\ heap[q].state = REJECTED =>
                    \A t \in Threads : \A n \in 1..Len(stack[t]) :
                        (stack[t][n].op = "Reject" /\ stack[t][n].p = q
                             /\ stack[t][n].pc \in {"r_bcast", "r_deps"})
                            => HandlerRuns(calls, q) # <<>>)
    /\ [][\A q \in Handled :
             HandlerRuns(calls', q) # HandlerRuns(calls, q) =>
                 /\ heap[q].state = REJECTED
                 /\ HandlerRuns(calls', q) =
                        <<[arg |-> Nil, cause |-> heap[q].cause]>>
                 /\ \A d \in Range(heap[q].dependencies) :
                        heap[d].state = PENDING /\ heap'[d].state = PENDING]_vars

(* Reject has called the handler of a promise made by Catch that has a     *)
(* dependency, and has not yet rejected the dependency.                    *)
C22_Witness ==
    \E q \in Handled :
        /\ heap[q].state = REJECTED
        /\ Len(HandlerRuns(calls, q)) = 1
        /\ heap[q].dependencies # <<>>
        /\ \A d \in Range(heap[q].dependencies) : heap[d].state = PENDING
        /\ \E t \in Threads :
               /\ Running(t) /\ Top(t).op = "Reject" /\ Top(t).p = q
               /\ Top(t).pc = "r_bcast"

(* The mutexes goroutine t holds. *)
Held(t) == {p \in DOMAIN heap : heap[p].mutex = t}

(* Goroutine t is about to call mutex.Lock(). *)
Acquiring(t) ==
    /\ Running(t)
    /\ Top(t).pc \in {"c_lock", "t_lock", "k_lock", "m_lock", "g_lock"}

(* C23: the mutexes of the promises are locked one at a time and never     *)
(* nested: no goroutine holds two of them, none calls Lock while it holds  *)
(* one, and a promise's mutex is not held by the goroutine that is in the  *)
(* loop calling Complete or Reject on its dependencies.                    *)
C23_NoNestedLocks ==
    \A t \in Threads :
        /\ Cardinality(Held(t)) <= 1
        /\ Acquiring(t) => Held(t) = {}
        /\ \A n \in 1..Len(stack[t]) :
               stack[t][n].pc \in {"c_deps", "r_deps"} => stack[t][n].p \notin Held(t)

(* Call k is a Catch on a CompletablePromise that has returned the         *)
(* dependency it registered.                                               *)
CatchRegistered(k) ==
    /\ calls[k].op = "Catch" /\ OnCompletable(k) /\ Returned(k)
    /\ calls[k].rt.kind = "completable" /\ calls[k].rt.id # calls[k].recv.id

(* C24: the handler of Catch is never invoked when the promise is          *)
(* fulfilled.  Catch on a fulfilled promise returns the promise itself (a  *)
(* CompletedPromise returns itself) and does not call the handler; the     *)
(* dependency that Catch registered on a pending promise is fulfilled only *)
(* when the promise is, with the value the promise holds, and it is        *)
(* fulfilled once the Complete on the promise has returned.                *)
C24_CatchOnFulfilled ==
    \A k \in DOMAIN calls :
        calls[k].op = "Catch" =>
            /\ StateOf(calls[k].recv) = FULFILLED =>
                   /\ calls[k].runs = <<>>
                   /\ (Returned(k) /\ ~CatchRegistered(k)) => calls[k].rt = calls[k].recv
            /\ CatchRegistered(k) =>
                   LET p == calls[k].recv.id
                       d == calls[k].rt.id
                   IN  /\ heap[d].compute.kind = "nil"
                       /\ heap[d].state = FULFILLED =>
                              /\ heap[p].state = FULFILLED
                              /\ heap[d].value = heap[p].value
                              /\ calls[k].runs = <<>>
                       /\ (heap[p].state = FULFILLED /\ CascadeOver(p)) =>
                              heap[d].state = FULFILLED

(* A Catch on the pending outer promise returned a dependency, the promise *)
(* was completed with 2 and the dependency holds 2; a Catch called after   *)
(* that returned the promise itself; no handler has run.                   *)
C24_Witness ==
    \E j, k \in DOMAIN calls :
        /\ CatchRegistered(j) /\ calls[j].recv = Ref(OuterPromise)
        /\ heap[OuterPromise].state = FULFILLED
        /\ heap[calls[j].rt.id].state = FULFILLED
        /\ heap[calls[j].rt.id].value = Given(OuterPromise)
        /\ calls[j].runs = <<>>
        /\ calls[k].op = "Catch" /\ calls[k].pre = FULFILLED /\ Returned(k)
        /\ calls[k].rt = Ref(OuterPromise) /\ calls[k].runs = <<>>

(* The placeholders made by Combine (completable.go:264). *)
Placeholders == {pl \in DOMAIN heap : heap[pl].via = "placeholder"}

(* The frames <<t, n>> of calls of Complete or Reject on pl that have not  *)
(* yet passed the check of the state.                                      *)
Settling(pl) ==
    {tn \in Threads \X (1..Len(heap) + MaxCalls) :
        /\ tn[2] <= Len(stack[tn[1]])
        /\ stack[tn[1]][tn[2]].p = pl
        /\ \/ stack[tn[1]][tn[2]].op = "Complete"
                  /\ stack[tn[1]][tn[2]].pc \in {"c_lock", "c_check"}
           \/ stack[tn[1]][tn[2]].op = "Reject"
                  /\ stack[tn[1]][tn[2]].pc = "r_lock"}

(* C25: the library settles the placeholder of Combine at most once.  A    *)
(* call of placeholder.Complete or placeholder.Reject finds the            *)
(* placeholder pending, so it never panics, and no two such calls are ever *)
(* under way; a call whose goroutine panics is never one that was settling *)
(* a placeholder.                                                          *)
C25_PlaceholderOnce ==
    /\ [](\A pl \in Placeholders :
             /\ Cardinality(Settling(pl)) <= 1
             /\ Settling(pl) # {} => heap[pl].state = PENDING)
    /\ [][\A t \in Threads :
             (t \in DOMAIN calls /\ calls[t].status = "running"
                  /\ calls'[t].status = "faulted") =>
                 Top(t).p \notin Placeholders]_vars

(* The outer promise was completed, the closure registered on the pending  *)
(* inner promise, and the Reject of the inner promise has rejected the     *)
(* placeholder.                                                            *)
C25_Witness ==
    \E k \in DOMAIN calls : \E pl \in Placeholders :
        /\ calls[k].op = "Combine" /\ calls[k].rt = Ref(pl)
        /\ calls[k].recv.id # InnerPromise
        /\ heap[calls[k].recv.id].state = FULFILLED
        /\ heap[InnerPromise].state = REJECTED
        /\ heap[pl].state = REJECTED
        /\ heap[pl].by = heap[InnerPromise].by
        /\ calls[heap[pl].by].op = "Reject" /\ Returned(heap[pl].by)

(* C26: when a call of Complete or Reject has returned or panicked, the    *)
(* mutex of its promise is free: a mutex is held only by the goroutine of  *)
(* a call that is still running, so a later Complete or Reject on the      *)
(* promise is not blocked by a call that has ended.                        *)
C26_LockFreed ==
    \A p \in DOMAIN heap :
        heap[p].mutex # 0 => calls[heap[p].mutex].status = "running"

(* The positions of the rejected inputs of the All call k. *)
RejectedAt(k) == {i \in DOMAIN calls[k].arg : RejectedInput(k, i)}

(* The lowest of them. *)
FirstRejected(k) == CHOOSE i \in RejectedAt(k) : \A j \in RejectedAt(k) : i <= j

(* C27: the cause of the result of All is the cause of the rejected input  *)
(* at the lowest position, whatever the order in time in which the inputs  *)
(* were settled.  A rejected result holds that cause and every input       *)
(* before that position is fulfilled; while an input before it is pending  *)
(* the result is pending; and once every input has settled (the calls that *)
(* settled them having returned) with one rejected, the result is          *)
(* rejected.                                                               *)
C27_FirstRejectedWins ==
    \A k \in DOMAIN calls :
        (AllReturned(k) /\ RejectedAt(k) # {}) =>
            LET inputs == calls[k].arg
                result == calls[k].rt
                first == FirstRejected(k)
            IN  /\ StateOf(result) # FULFILLED
                /\ StateOf(result) = REJECTED =>
                       /\ CauseOf(result) = CauseOf(inputs[first])
                       /\ \A j \in 1..(first - 1) : StateOf(inputs[j]) = FULFILLED
                /\ (\E j \in 1..(first - 1) : StateOf(inputs[j]) = PENDING)
                       => StateOf(result) = PENDING
                /\ (\A i \in DOMAIN inputs :
                        StateOf(inputs[i]) # PENDING /\ SettledFor(inputs[i]))
                       => StateOf(result) = REJECTED

(* All(a, b) was called, then b.Reject and then a.Reject: the result is    *)
(* rejected with the cause of a.                                           *)
C27_Witness ==
    \E k, j, l \in DOMAIN calls :
        /\ AllReturned(k) /\ k < j /\ j < l
        /\ calls[k].arg = <<Ref(OuterPromise), Ref(InnerPromise)>>
        /\ calls[j].op = "Reject" /\ calls[j].recv = Ref(InnerPromise)
        /\ calls[l].op = "Reject" /\ calls[l].recv = Ref(OuterPromise)
        /\ RejectedAt(k) = {1, 2}
        /\ StateOf(calls[k].rt) = REJECTED
        /\ CauseOf(calls[k].rt) = Blame(OuterPromise)

====
